---- MODULE Spec2Model ----
(***************************************************************************)
(* The scrape-cache pipeline of the Sri Lanka Tours mobile back end: the   *)
(* seven page scrapers (app/utils/*.py), the save operation (db_save.py),  *)
(* the content extractor (html_utils.py) and the refresh endpoint of       *)
(* main.py, over the "scrape" collection of the document store.            *)
(*                                                                         *)
(* A parsed page is a tree of nodes; markup is a sequence of tokens; the   *)
(* collection is the sequence of its documents in insertion order.         *)
(***************************************************************************)
EXTENDS Integers, Sequences, FiniteSets, TLC

\* Bound: the store assigns at most MaxId identifiers in a run.
MaxId == 3

\* The calls the worker processes start in a run of SpecConc.
MaxCalls == 3

\* The children of the subtrees the extractors are applied to in SpecExtract.
MaxKids == 3

\* The offers of the collection, and the page and limit of a request for the
\* offer list, in SpecOffers.
MaxOffers == 3
MaxPage == 3
MaxLimit == 3

(***************************************************************************)
(* Python values                                                           *)
(***************************************************************************)
\* Python's None: what find_one answers when nothing matches, and the
\* fetcher's failure sentinel (the only falsy value `if not soup` can see,
\* a parsed document being truthy).
None == [py |-> "None"]

\* Truth value of None, a dict or a parsed node: None and the empty dict are
\* falsy.
Truthy(v) == v # None /\ DOMAIN v # {}

(***************************************************************************)
(* Parsed documents                                                        *)
(***************************************************************************)
\* An element: its tag, its class attribute (the sequence of its class
\* names), its href attribute (a sequence of string pieces, <<>> when absent)
\* and its children.
El(tag, cls, href, kids) ==
    [tag |-> tag, cls |-> cls, href |-> href, text |-> <<>>, kids |-> kids]

\* A text node: a sequence of pieces, " " being white space.
Txt(pieces) ==
    [tag |-> "#text", cls |-> <<>>, href |-> <<>>, text |-> pieces, kids |-> <<>>]

RECURSIVE Flatten(_)
\* The concatenation of a sequence of sequences.
Flatten(ss) == IF ss = <<>> THEN <<>> ELSE Head(ss) \o Flatten(Tail(ss))

RECURSIVE Descendants(_)
\* Every node below n, in document order (pre-order).
Descendants(n) ==
    Flatten([i \in 1..Len(n.kids) |-> <<n.kids[i]>> \o Descendants(n.kids[i])])

RECURSIVE WithTag(_, _)
\* The members of s whose tag is in tags, in the order of s.
WithTag(s, tags) ==
    IF s = <<>> THEN <<>>
    ELSE (IF Head(s).tag \in tags THEN <<Head(s)>> ELSE <<>>)
         \o WithTag(Tail(s), tags)

\* bs4 find_all(tags): the descendants with one of the tags, document order.
find_all(n, tags) == WithTag(Descendants(n), tags)

\* bs4 class_=cls: a single class name matches an element that carries it; a
\* string of several names matches only that exact class attribute.
ClassMatches(have, cls) ==
    IF Len(cls) = 1 THEN \E i \in 1..Len(have) : have[i] = cls[1] ELSE have = cls

RECURSIVE FirstWith(_, _, _)
FirstWith(s, tag, cls) ==
    IF s = <<>> THEN None
    ELSE IF Head(s).tag = tag /\ ClassMatches(Head(s).cls, cls) THEN Head(s)
    ELSE FirstWith(Tail(s), tag, cls)

\* bs4 find(tag, class_=cls): the first such descendant, or None.
find(n, tag, cls) == FirstWith(Descendants(n), tag, cls)

RECURSIVE LStrip(_)
LStrip(p) == IF p # <<>> /\ Head(p) = " " THEN LStrip(Tail(p)) ELSE p

RECURSIVE RStrip(_)
RStrip(p) ==
    IF p # <<>> /\ p[Len(p)] = " " THEN RStrip(SubSeq(p, 1, Len(p) - 1)) ELSE p

\* str.strip()
Strip(p) == RStrip(LStrip(p))

\* bs4 get_text(strip=True): the stripped text pieces of the subtree, joined.
get_text(n) ==
    LET ts == WithTag(Descendants(n), {"#text"})
    IN  Flatten([i \in 1..Len(ts) |-> Strip(ts[i].text)])

HTag(i) == CASE i = 1 -> "h1" [] i = 2 -> "h2" [] i = 3 -> "h3"
             [] i = 4 -> "h4" [] i = 5 -> "h5" [] i = 6 -> "h6"

RECURSIVE HeadingsFrom(_, _)
\* html_utils.extract_headings, the loop from level i on: level by level,
\* each level's headings in document order.
HeadingsFrom(soup, i) ==
    IF i > 6 THEN <<>>
    ELSE LET hs == find_all(soup, {HTag(i)})
         IN  [j \in 1..Len(hs) |-> get_text(hs[j])] \o HeadingsFrom(soup, i + 1)

\* A variant of extract_headings whose loop starts at level 2.
extract_headings_FromH2(soup) == HeadingsFrom(soup, 2)

extract_headings(soup) == HeadingsFrom(soup, 1)

\* A variant of extract_list_items that looks at the children only.
extract_list_items_TopLevel(soup) ==
    LET lis == WithTag(soup.kids, {"li"})
    IN  [j \in 1..Len(lis) |-> get_text(lis[j])]

extract_list_items(soup) ==
    LET lis == find_all(soup, {"li"})
    IN  [j \in 1..Len(lis) |-> get_text(lis[j])]

(***************************************************************************)
(* Markup: a sequence of tokens                                            *)
(***************************************************************************)
OpenTok(n) == [k |-> "open", tag |-> n.tag, cls |-> n.cls, s |-> n.href]
TextTok(n) == [k |-> "text", tag |-> "", cls |-> <<>>, s |-> n.text]
CloseTok(n) == [k |-> "close", tag |-> n.tag, cls |-> <<>>, s |-> <<>>]

RECURSIVE Markup(_)
\* str(tag): the serialization of a node with its subtree.
Markup(n) ==
    IF n.tag = "#text" THEN <<TextTok(n)>>
    ELSE <<OpenTok(n)>>
         \o Flatten([i \in 1..Len(n.kids) |-> Markup(n.kids[i])])
         \o <<CloseTok(n)>>

\* bs4 decode_contents(): the serialization of the children only.
decode_contents(n) == Flatten([i \in 1..Len(n.kids) |-> Markup(n.kids[i])])

\* A variant of replace that stops after the first occurrence, as
\* str.replace(old, new, 1) does.
replace_FirstOnly(m, old, new) ==
    LET hits == UNION {{<<i, j>> : j \in {j \in 1..Len(m[i].s) : m[i].s[j] = old}} :
                       i \in 1..Len(m)}
        first == CHOOSE h \in hits :
                    \A g \in hits : h[1] < g[1] \/ (h[1] = g[1] /\ h[2] <= g[2])
    IN  [i \in 1..Len(m) |->
            [m[i] EXCEPT !.s = [j \in 1..Len(m[i].s) |->
                IF hits # {} /\ <<i, j>> = first THEN new ELSE m[i].s[j]]]]

\* str.replace(old, new) on markup: every occurrence of the piece old, in
\* attribute values and in text alike, becomes new.
replace(m, old, new) ==
    [i \in 1..Len(m) |->
        [m[i] EXCEPT !.s = [j \in 1..Len(m[i].s) |->
            IF m[i].s[j] = old THEN new ELSE m[i].s[j]]]]

(***************************************************************************)
(* The "scrape" collection: its documents in insertion order               *)
(***************************************************************************)
ObjectId(n) == [oid |-> n]

\* str(ObjectId): the identifier's text form.
str(o) == [hex |-> o.oid]

\* A filter document matches a stored one that has each of its fields with
\* the same value.
Matches(doc, flt) == \A f \in DOMAIN flt : f \in DOMAIN doc /\ doc[f] = flt[f]

MatchIdx(st, flt) == {i \in 1..Len(st) : Matches(st[i], flt)}

FirstIdx(st, flt) == CHOOSE i \in MatchIdx(st, flt) : \A j \in MatchIdx(st, flt) : i <= j

count_documents(st, flt) == Cardinality(MatchIdx(st, flt))

find_one(st, flt) == IF MatchIdx(st, flt) = {} THEN None ELSE st[FirstIdx(st, flt)]

RemoveAt(st, i) == SubSeq(st, 1, i - 1) \o SubSeq(st, i + 1, Len(st))

\* A variant of delete_one that removes every match, as delete_many does.
delete_many(st, flt) == SelectSeq(st, LAMBDA d : ~Matches(d, flt))

delete_one(st, flt) ==
    IF MatchIdx(st, flt) = {} THEN st ELSE RemoveAt(st, FirstIdx(st, flt))

\* dict with one more key.
WithKey(d, key, v) ==
    [f \in DOMAIN d \cup {key} |-> IF f = key THEN v ELSE d[f]]

\* dict.pop(key)'s effect on the dict.
WithoutKey(d, key) == [f \in DOMAIN d \ {key} |-> d[f]]

\* insert_one: the store assigns the next identifier; [store, nextId].
insert_one(st, nid, data) ==
    [store |-> Append(st, WithKey(data, "_id", ObjectId(nid))), nextId |-> nid + 1]

\* replace_one(flt, data, upsert=True): the first match is replaced and keeps
\* its identifier; with no match the document is inserted.
replace_one_upsert(st, nid, flt, data) ==
    IF MatchIdx(st, flt) = {} THEN insert_one(st, nid, data)
    ELSE LET i == FirstIdx(st, flt)
         IN  [store |-> [st EXCEPT ![i] = WithKey(data, "_id", st[i]._id)],
              nextId |-> nid]

\* existing["id"] = str(existing.pop("_id"))
WithId(existing) == WithKey(WithoutKey(existing, "_id"), "id", str(existing._id))

(***************************************************************************)
(* db_save.save_scrape                                                     *)
(***************************************************************************)
Err(msg) == [error |-> msg]

HasError(d) == "error" \in DOMAIN d

\* A variant of save_scrape without the test for the error key.
save_scrape_NoGuard(st, nid, data) ==
    IF ~Truthy(data)
    THEN [store |-> st, nextId |-> nid, result |-> None]
    ELSE [store |-> insert_one(st, nid, data).store, nextId |-> nid + 1,
          result |-> [message |-> "Data saved successfully", id |-> str(ObjectId(nid))]]

\* A variant of save_scrape that reports the save and inserts nothing.
save_scrape_NoInsert(st, nid, data) ==
    IF ~Truthy(data) \/ HasError(data)
    THEN [store |-> st, nextId |-> nid, result |-> None]
    ELSE [store |-> st, nextId |-> nid,
          result |-> [message |-> "Data saved successfully", id |-> str(ObjectId(nid))]]

\* [store, nextId, result]: None and no insert for a falsy or error payload.
save_scrape(st, nid, data) ==
    IF ~Truthy(data) \/ HasError(data)
    THEN [store |-> st, nextId |-> nid, result |-> None]
    ELSE LET r == insert_one(st, nid, data)
         IN  [store |-> r.store, nextId |-> r.nextId,
              result |-> [message |-> "Data saved successfully",
                          id |-> str(ObjectId(nid))]]

(***************************************************************************)
(* The pages the fetcher can return                                        *)
(***************************************************************************)
H(tag, pieces) == El(tag, <<>>, <<>>, <<Txt(pieces)>>)

Li(pieces) == El("li", <<>>, <<>>, <<Txt(pieces)>>)

P(pieces) == El("p", <<>>, <<>>, <<Txt(pieces)>>)

\* Every page has a site header outside the target element.
SiteHeader ==
    El("div", <<"header">>, <<>>, <<H("h1", <<"Site">>), Li(<<"Home">>)>>)

Document(body) == El("[document]", <<>>, <<>>, <<SiteHeader>> \o body)

\* The body of an article page.
Article ==
    << H("h3", <<" ", "Getting there", " ">>), H("h2", <<"Overview">>),
       El("ul", <<>>, <<>>, <<Li(<<"Sigiriya">>)>>) >>

\* A page whose target element is (tag, cls), and the same site after a
\* redesign that drops the class.
Articles(tag, cls) ==
    { Document(<<El(tag, cls, <<>>, Article)>>),
      Document(<<El(tag, <<"redesigned">>, <<>>, Article)>>) }

VisaUrl == "https://www.immigration.gov.lk/pages_e.php?id=14"
TransportUrl == "https://www.srilanka.travel/transport"
TopPlacesUrl == "https://traveltrails.lk/top-10-destinations-to-visit-in-sri-lanka-2024/"
HistoricalUrl == "https://sleepingelephantresort.com/blog/top-10-must-see-historical-sites-in-sri-lanka/"
TopBeachesUrl == "https://fromsunrisetosunset.com/best-beach-sri-lanka/"
LivingCostUrl == "https://www.numbeo.com/cost-of-living/country_result.jsp?country=Sri+Lanka&displayCurrency=USD"
DialogUrl == "https://www.dialog.lk/mobile-broadband/prepaid/plan"
MobitelUrl == "https://mobitel.lk/voice-and-data-plans#Anytime%20Data%20+%20Voice%20Plans"

TransportClass == <<"content-inner">>
TopPlacesClass == <<"e-con-inner">>
HistoricalClass == <<"page", "pdt-60", "pdb-80">>
TopBeachesClass ==
    <<"elementor-column", "elementor-col-50", "elementor-top-column",
      "elementor-element", "elementor-element-45564425">>
LivingCostClass == <<"data_wide_table", "new_bar_table">>
DialogClass == <<"prepaid-postpaid-container", "addon-hbb-mbb">>
MobitelClass == <<"col-md-6", "col-lg-9", "inner-rightcol-main">>

OldBus == "https://www.busbooking.lk/"
NewBus == "https://busseat.lk/"
OldSltb == "https://sltb.express.lk/"
NewSltb == "https://sltb.eseat.lk/"

TransportBody ==
    << H("h2", <<"By bus">>),
       El("a", <<>>, <<OldBus, "search">>, <<Txt(<<"Book a seat">>)>>),
       El("a", <<>>, <<OldSltb, "routes">>, <<Txt(<<OldSltb>>)>>),
       El("ul", <<>>, <<>>, <<Li(<<"Colombo", " ">>)>>) >>

\* The visa page: one div of class inner per section, headed by an h4.
VisaSection(heading) ==
    El("div", <<"inner">>, <<>>, <<H("h4", heading), P(<<"Rules">>), Li(<<"Passport">>)>>)

VisaTitles == {"General Information", "Visa Extension"}

\* The cost table: a header row and an item row, the last column holding the
\* edit link.
CostTable(price) ==
    El("table", LivingCostClass, <<>>,
       << El("tr", <<>>, <<>>,
             << El("th", <<>>, <<>>, <<Txt(<<"Item">>)>>),
                El("th", <<>>, <<>>, <<Txt(<<"Price">>)>>),
                El("th", <<>>, <<>>, <<Txt(<<"Edit">>)>>) >>),
          El("tr", <<>>, <<>>,
             << El("td", <<>>, <<>>, <<Txt(<<"Meal">>), El("img", <<>>, <<>>, <<>>)>>),
                El("td", <<>>, <<>>, <<Txt(<<price>>), El("i", <<"icon">>, <<>>, <<>>)>>),
                El("td", <<>>, <<>>,
                   <<El("a", <<"edit">>, <<"/edit">>, <<Txt(<<"Edit">>)>>)>>) >>) >>)

\* A provider's plans: a heading, a table and a span outside the allow-list.
Plans(price) ==
    << H("h2", <<"Plans">>),
       El("span", <<>>, <<>>, <<Txt(<<"New">>)>>),
       El("table", <<>>, <<>>,
          <<El("tr", <<>>, <<>>, <<El("td", <<>>, <<>>, <<Txt(<<price>>)>>)>>)>>),
       El("ul", <<>>, <<>>, <<Li(<<"30 days">>)>>) >>

\* Every document the site at url can serve.
Pages(url) ==
    CASE url = VisaUrl ->
            { Document(<<VisaSection(<<"General Information">>)>>),
              Document(<<VisaSection(<<"1. ", "General Information">>),
                         VisaSection(<<"Visa Extension">>)>>) }
      [] url = TransportUrl ->
            { Document(<<El("div", TransportClass, <<>>, TransportBody)>>),
              Document(<<El("div", <<"redesigned">>, <<>>, TransportBody)>>) }
      [] url = TopPlacesUrl -> Articles("div", TopPlacesClass)
      [] url = HistoricalUrl -> Articles("article", HistoricalClass)
      [] url = TopBeachesUrl -> Articles("div", TopBeachesClass)
      [] url = LivingCostUrl ->
            { Document(<<CostTable("5.00")>>), Document(<<CostTable("6.00")>>),
              Document(<<El("table", <<"redesigned">>, <<>>, <<>>)>>) }
      [] url = DialogUrl ->
            { Document(<<El("div", DialogClass, <<>>, Plans("499"))>>),
              Document(<<El("div", DialogClass, <<>>, Plans("549"))>>),
              Document(<<El("div", <<"redesigned">>, <<>>, Plans("499"))>>) }
      [] url = MobitelUrl ->
            { Document(<<El("div", MobitelClass, <<>>, <<Txt(<<"Coming soon">>)>>)>>),
              Document(<<El("div", <<"redesigned">>, <<>>, Plans("450"))>>) }

\* What scrape_webpage(url) can return: a parsed document, or the failure
\* sentinel when the request or the parse fails.
FetchResults(url) == Pages(url) \cup {None}

(***************************************************************************)
(* The page scrapers.  Each takes the collection, the store's next         *)
(* identifier, its arguments and what scrape_webpage returns if called,    *)
(* and yields [store, nextId, result, fetched]: fetched lists the results  *)
(* of the fetches it made, in order.  The part of a scraper that runs on a *)
(* fetched document (the selector, the cleanup, the extraction) is an      *)
(* operator of its own, tabulated over the documents the site can serve.   *)
(***************************************************************************)
Ret(st, nid, result, fetched) ==
    [store |-> st, nextId |-> nid, result |-> result, fetched |-> fetched]

\* An exception leaving the function.
Raised(exc) == [raised |-> exc]

IsRaised(r) == "raised" \in DOMAIN r

\* Markup that is plain text.
PlainText(pieces) == <<[k |-> "text", tag |-> "", cls |-> <<>>, s |-> pieces]>>

ScrapeData(url, page, title, tags, lists, content) ==
    [url |-> url, page |-> page, section_title |-> title,
     tags |-> tags, lists |-> lists, content |-> content]

\* A variant of SaveAndReturn that saves what the selector step left, the
\* error object included, before it looks at it.
SaveAndReturn_SavesErrors(st, nid, data, soup) ==
    LET saved == insert_one(st, nid, data)
    IN  Ret(saved.store, saved.nextId, data, <<soup>>)

\* The end of a scraper that saves with save_scrape: data is what the
\* selector and the extraction gave, the error object or the built record.
\* The record is saved as a copy, so the one returned has no _id.
SaveAndReturn(st, nid, data, soup) ==
    LET saved == save_scrape(st, nid, data)
    IN  IF HasError(data) THEN Ret(st, nid, data, <<soup>>)
        ELSE Ret(saved.store, saved.nextId, data, <<soup>>)

\* The entry of a table for a document.
Tabulated(table, soup) == (CHOOSE e \in table : e.soup = soup).data

\* A Python str that may be None instead: None, or [s |-> the string].
Some(v) == [s |-> v]

\* h4.string: the text of an element whose only child is a text node.
String(n) ==
    IF Len(n.kids) = 1 /\ n.kids[1].tag = "#text" THEN Some(n.kids[1].text) ELSE None

\* title in t
Contains(t, title) == \E i \in 1..Len(t) : t[i] = title

\* string=lambda t: t and title in t
TitleIn(t, title) == Truthy(t) /\ t.s # <<>> /\ Contains(t.s, title)

RECURSIVE SectionHtml(_, _)
\* visa.py's loop over the divs of class inner: the contents of the first
\* one with an h4 whose string contains the title, None when there is none.
SectionHtml(divs, title) ==
    IF divs = <<>> THEN None
    ELSE LET h4s == find_all(Head(divs), {"h4"})
         IN  IF \E j \in 1..Len(h4s) : TitleIn(String(h4s[j]), title)
             THEN Some(decode_contents(Head(divs)))
             ELSE SectionHtml(Tail(divs), title)

\* A variant of OrElse with no fallback: the value of a alone, None included.
OrElse_NoFallback(a, b) == IF Truthy(a) THEN a.s ELSE None

\* a or b, for a str or None a.
OrElse(a, b) == IF Truthy(a) /\ a.s # <<>> THEN a.s ELSE b

RECURSIVE WithClass(_, _)
WithClass(s, cls) ==
    IF s = <<>> THEN <<>>
    ELSE (IF ClassMatches(Head(s).cls, cls) THEN <<Head(s)>> ELSE <<>>)
         \o WithClass(Tail(s), cls)

\* visa.py from the extraction to the built record.
\* A variant of VisaData with no placeholder: an absent section gives an
\* empty content.
VisaData_NoPlaceholder(soup, title) ==
    LET section_html == SectionHtml(WithClass(find_all(soup, {"div"}), <<"inner">>), title)
    IN  ScrapeData(VisaUrl, "visa", title,
                   extract_headings(soup), extract_list_items(soup),
                   OrElse(section_html, <<>>))

VisaData(soup, title) ==
    LET section_html == SectionHtml(WithClass(find_all(soup, {"div"}), <<"inner">>), title)
    IN  ScrapeData(VisaUrl, "visa", title,
                   extract_headings(soup), extract_list_items(soup),
                   OrElse(section_html, PlainText(<<"Section '", title, "' not found.">>)))

VisaTable ==
    {[soup |-> <<d, t>>, data |-> VisaData(d, t)] : d \in Pages(VisaUrl), t \in VisaTitles}

\* A variant of get_visa_data whose cache read is keyed on the page alone.
get_visa_data_PageOnly(st, nid, title, soup) ==
    LET existing == find_one(st, [page |-> "visa"])
    IN  IF Truthy(existing) THEN Ret(st, nid, WithId(existing), <<>>)
        ELSE IF ~Truthy(soup)
        THEN Ret(st, nid, Err("Failed to fetch or parse the page."), <<soup>>)
        ELSE SaveAndReturn(st, nid, Tabulated(VisaTable, <<soup, title>>), soup)

get_visa_data(st, nid, title, soup) ==
    LET existing == find_one(st, [page |-> "visa", section_title |-> title])
    IN  IF Truthy(existing) THEN Ret(st, nid, WithId(existing), <<>>)
        ELSE IF ~Truthy(soup)
        THEN Ret(st, nid, Err("Failed to fetch or parse the page."), <<soup>>)
        ELSE SaveAndReturn(st, nid, Tabulated(VisaTable, <<soup, title>>), soup)

\* transport.py from the selector to the built record, for a document.
TransportData(soup) ==
    LET content_div == find(soup, "div", TransportClass)
        section_html == replace(replace(decode_contents(content_div), OldBus, NewBus),
                                OldSltb, NewSltb)
    IN  IF ~Truthy(content_div) THEN Err("Could not find content-inner section.")
        ELSE ScrapeData(TransportUrl, "transport", "Transport Information",
                        extract_headings(content_div),
                        extract_list_items(content_div), section_html)

TransportTable == {[soup |-> d, data |-> TransportData(d)] : d \in Pages(TransportUrl)}

\* transport.py uses soup before it tests it: soup.find on the failure
\* sentinel raises, and the test after the save is never reached with it.
transport_data(st, nid, soup) ==
    LET existing == find_one(st, [page |-> "transport"])
    IN  IF Truthy(existing) THEN Ret(st, nid, WithId(existing), <<>>)
        ELSE IF soup = None
        THEN Ret(st, nid, Raised("AttributeError"), <<soup>>)
        ELSE SaveAndReturn(st, nid, Tabulated(TransportTable, soup), soup)

\* The shape top_places.py, historical_places.py and top_beaches.py share,
\* from the selector to the built record.
ArticleData(soup, url, page, title, tag, cls, missing) ==
    LET content_div == find(soup, tag, cls)
    IN  IF ~Truthy(content_div) THEN Err(missing)
        ELSE ScrapeData(url, page, title, extract_headings(content_div),
                        extract_list_items(content_div), decode_contents(content_div))

\* A variant of CheckThenInsert without the cache check.
CheckThenInsert_NoCheck(st, nid, soup, page, table) ==
    IF ~Truthy(soup)
    THEN Ret(st, nid, Err("Failed to fetch or parse the page."), <<soup>>)
    ELSE SaveAndReturn(st, nid, Tabulated(table, soup), soup)

\* The shape they share around it: the cache check, the fetch, the save.
CheckThenInsert(st, nid, soup, page, table) ==
    LET existing == find_one(st, [page |-> page])
    IN  IF Truthy(existing) THEN Ret(st, nid, WithId(existing), <<>>)
        ELSE IF ~Truthy(soup)
        THEN Ret(st, nid, Err("Failed to fetch or parse the page."), <<soup>>)
        ELSE SaveAndReturn(st, nid, Tabulated(table, soup), soup)

TopPlacesTable ==
    {[soup |-> d,
      data |-> ArticleData(d, TopPlacesUrl, "top_places", "Top Places in Sri Lanka",
                           "div", TopPlacesClass, "Could not find entry-content section.")]
     : d \in Pages(TopPlacesUrl)}

top_places_data(st, nid, soup) ==
    CheckThenInsert(st, nid, soup, "top_places", TopPlacesTable)

HistoricalTable ==
    {[soup |-> d,
      data |-> ArticleData(d, HistoricalUrl, "historical_places",
                           "Historical Places in Sri Lanka", "article", HistoricalClass,
                           "Could not find content-inner section.")]
     : d \in Pages(HistoricalUrl)}

historical_places_data(st, nid, soup) ==
    CheckThenInsert(st, nid, soup, "historical_places", HistoricalTable)

TopBeachesTable ==
    {[soup |-> d,
      data |-> ArticleData(d, TopBeachesUrl, "top_beaches", "top beaches in Sri Lanka",
                           "div", TopBeachesClass, "Could not find entry-content section.")]
     : d \in Pages(TopBeachesUrl)}

top_beaches_data(st, nid, soup) ==
    CheckThenInsert(st, nid, soup, "top_beaches", TopBeachesTable)

(***************************************************************************)
(* cost_of_living.py                                                       *)
(***************************************************************************)
RECURSIVE Decompose(_, _)
\* tag.decompose() for every descendant with one of the tags.
Decompose(n, tags) ==
    LET kept == WithTag([i \in 1..Len(n.kids) |-> n.kids[i]],
                        {n.kids[i].tag : i \in 1..Len(n.kids)} \ tags)
    IN  [n EXCEPT !.kids = [i \in 1..Len(kept) |-> Decompose(kept[i], tags)]]

\* str.lower() of a piece.
Lower(piece) == CASE piece = "Edit" -> "edit" [] piece = "EDIT" -> "edit"
                  [] OTHER -> piece

\* "edit" in a.get("class", []) or "edit" in a.get_text(strip=True).lower()
IsEditLink(a) ==
    \/ \E i \in 1..Len(a.cls) : a.cls[i] = "edit"
    \/ \E i \in 1..Len(get_text(a)) : Lower(get_text(a)[i]) = "edit"

RECURSIVE KeepNonEdit(_)
KeepNonEdit(s) ==
    IF s = <<>> THEN <<>>
    ELSE (IF Head(s).tag = "a" /\ IsEditLink(Head(s)) THEN <<>> ELSE <<Head(s)>>)
         \o KeepNonEdit(Tail(s))

RECURSIVE DecomposeEditLinks(_)
\* a.decompose() for every edit link below n.
DecomposeEditLinks(n) ==
    LET kept == KeepNonEdit(n.kids)
    IN  [n EXCEPT !.kids = [i \in 1..Len(kept) |-> DecomposeEditLinks(kept[i])]]

CellTags == {"td", "th"}

RECURSIVE DecomposeLast(_, _)
\* cells[-1].decompose(): n without the last, in document order, of its
\* descendants with one of the tags (n has one).
DecomposeLast(n, tags) ==
    LET holds(i) == n.kids[i].tag \in tags \/ find_all(n.kids[i], tags) # <<>>
        k == CHOOSE i \in 1..Len(n.kids) :
                 holds(i) /\ \A j \in (i + 1)..Len(n.kids) : ~holds(j)
    IN  IF find_all(n.kids[k], tags) # <<>>
        THEN [n EXCEPT !.kids[k] = DecomposeLast(n.kids[k], tags)]
        ELSE [n EXCEPT !.kids = RemoveAt(n.kids, k)]

RECURSIVE DropLastColumn(_)
\* The loop over the rows: each tr that has cells loses its last one.
DropLastColumn(n) ==
    LET row == IF n.tag = "tr" /\ find_all(n, CellTags) # <<>>
               THEN DecomposeLast(n, CellTags) ELSE n
    IN  [row EXCEPT !.kids = [i \in 1..Len(row.kids) |-> DropLastColumn(row.kids[i])]]

\* Step 3 of cost_of_living, in the order of the code.
CleanTable(content) ==
    DropLastColumn(DecomposeEditLinks(Decompose(content, {"i", "svg", "img"})))

\* Steps 2 to 4: from the selector to the built record, for a document.
LivingCostData(soup) ==
    LET content == find(soup, "table", LivingCostClass)
        cleaned == CleanTable(content)
    IN  IF ~Truthy(content) THEN Err("Could not find the expected content section.")
        ELSE ScrapeData(LivingCostUrl, "livingCost", "Cost of living Sri Lanka",
                        extract_headings(cleaned), extract_list_items(cleaned),
                        decode_contents(cleaned))

LivingCostTable == {[soup |-> d, data |-> LivingCostData(d)] : d \in Pages(LivingCostUrl)}

\* A variant of ReplaceAndReturn that drops the stale record when the
\* selector matches nothing.
ReplaceAndReturn_DropsOnError(st, nid, page_key, data, soup) ==
    LET saved == replace_one_upsert(st, nid, [page |-> page_key], data)
    IN  IF HasError(data) THEN Ret(delete_one(st, [page |-> page_key]), nid, data, <<soup>>)
        ELSE Ret(saved.store, saved.nextId, data, <<soup>>)

\* Step 5: data is the error object of step 2 or the built record.
ReplaceAndReturn(st, nid, page_key, data, soup) ==
    LET saved == replace_one_upsert(st, nid, [page |-> page_key], data)
    IN  IF HasError(data) THEN Ret(st, nid, data, <<soup>>)
        ELSE Ret(saved.store, saved.nextId, data, <<soup>>)

cost_of_living(st, nid, force_scrape, soup) ==
    LET page_key == "livingCost"
        cached == find_one(st, [page |-> page_key])
    IN  IF ~force_scrape /\ Truthy(cached) THEN Ret(st, nid, WithId(cached), <<>>)
        ELSE IF ~Truthy(soup)
        THEN Ret(st, nid, Err("Failed to fetch or parse the page."), <<soup>>)
        ELSE ReplaceAndReturn(st, nid, page_key, Tabulated(LivingCostTable, soup), soup)

(***************************************************************************)
(* broadband.py                                                            *)
(***************************************************************************)
BroadbandPages ==
    << [url |-> DialogUrl, page_key |-> "broadband_dialog",
        title |-> "Dialog Prepaid Broadband Plans", selector |-> DialogClass],
       [url |-> MobitelUrl, page_key |-> "broadband_mobitel",
        title |-> "Mobitel Broadband Plans", selector |-> MobitelClass] >>

AllowList == {"h1", "h2", "h3", "table", "td", "tr", "p", "img"}

\* A variant of AllowListed without the fallback to the whole section.
AllowListed_NoFallback(section) ==
    LET tags == find_all(section, AllowList)
    IN  Flatten([i \in 1..Len(tags) |-> Markup(tags[i])])

\* "".join(str(tag) for tag in tags) if tags else section.decode_contents()
AllowListed(section) ==
    LET tags == find_all(section, AllowList)
    IN  IF tags # <<>> THEN Flatten([i \in 1..Len(tags) |-> Markup(tags[i])])
        ELSE decode_contents(section)

\* An iteration from the selector to the built record, for a document.
BroadbandData(soup, page) ==
    LET section == find(soup, "div", page.selector)
    IN  IF ~Truthy(section) THEN Err("Selector not found: " \o page.selector[1])
        ELSE ScrapeData(page.url, page.page_key, page.title,
                        extract_headings(section), extract_list_items(section),
                        AllowListed(section))

BroadbandTable ==
    {[soup |-> <<d, BroadbandPages[i].page_key>>, data |-> BroadbandData(d, BroadbandPages[i])]
     : d \in Pages(DialogUrl) \cup Pages(MobitelUrl), i \in 1..Len(BroadbandPages)}

\* A variant of BroadbandDelete that deletes nothing.
BroadbandDelete_Skipped(st, force_scrape, page) == st

\* The delete that opens an iteration of the loop.
BroadbandDelete(st, force_scrape, page) ==
    IF force_scrape THEN delete_one(st, [page |-> page.page_key]) ELSE st

\* The end of an iteration: data is the error object or the built record,
\* which is saved and appended to the results.
BroadbandSave(st, nid, results, data) ==
    LET saved == save_scrape(st, nid, data)
    IN  IF HasError(data)
        THEN [store |-> st, nextId |-> nid, results |-> Append(results, data)]
        ELSE [store |-> saved.store, nextId |-> saved.nextId,
              results |-> Append(results, data)]

\* An iteration of the loop, on the state acc: [store, nextId, results].
BroadbandIteration(acc, force_scrape, page, soup) ==
    LET st == BroadbandDelete(acc.store, force_scrape, page)
    IN  IF ~Truthy(soup)
        THEN [store |-> st, nextId |-> acc.nextId,
              results |-> Append(acc.results, Err("Failed to fetch: " \o page.url))]
        ELSE BroadbandSave(st, acc.nextId, acc.results,
                           Tabulated(BroadbandTable, <<soup, page.page_key>>))

RECURSIVE BroadbandLoop_StopsOnError(_, _, _, _)
\* A variant of BroadbandLoop that leaves the loop at the first page that
\* fails, as a break in place of continue does.
BroadbandLoop_StopsOnError(acc, force_scrape, soups, i) ==
    IF i > Len(BroadbandPages) THEN acc
    ELSE LET next == BroadbandIteration(acc, force_scrape, BroadbandPages[i], soups[i])
         IN  IF HasError(next.results[Len(next.results)]) THEN next
             ELSE BroadbandLoop_StopsOnError(next, force_scrape, soups, i + 1)

RECURSIVE BroadbandLoop(_, _, _, _)
\* The iterations from page i on; soups[i] is what the i-th fetch returns.
BroadbandLoop(acc, force_scrape, soups, i) ==
    IF i > Len(BroadbandPages) THEN acc
    ELSE BroadbandLoop(BroadbandIteration(acc, force_scrape, BroadbandPages[i], soups[i]),
                       force_scrape, soups, i + 1)

\* What the loop leaves, as the function's outcome.
BroadbandReturn(acc, soups) == Ret(acc.store, acc.nextId, [list |-> acc.results], soups)

\* The result is the list of the two pages' results.
broadband_data(st, nid, force_scrape, soups) ==
    BroadbandReturn(BroadbandLoop([store |-> st, nextId |-> nid, results |-> <<>>],
                                  force_scrape, soups, 1), soups)

(***************************************************************************)
(* main.py: the refresh endpoint                                           *)
(***************************************************************************)
\* The keys of scrape_functions, in the order of the dict.
AvailablePages ==
    <<"top_beaches", "historical_places", "livingCost", "visa", "transport",
      "top_places", "broadband">>

IsAvailable(page_name) == \E i \in 1..Len(AvailablePages) : AvailablePages[i] = page_name

\* scrape_functions[page_name](): the scrapers with the arguments the dict
\* binds (force_scrape=True for livingCost, the defaults for the others).
ScrapeFunction(st, nid, page_name, soups) ==
    CASE page_name = "top_beaches" -> top_beaches_data(st, nid, soups[1])
      [] page_name = "historical_places" -> historical_places_data(st, nid, soups[1])
      [] page_name = "livingCost" -> cost_of_living(st, nid, TRUE, soups[1])
      [] page_name = "visa" -> get_visa_data(st, nid, "General Information", soups[1])
      [] page_name = "transport" -> transport_data(st, nid, soups[1])
      [] page_name = "top_places" -> top_places_data(st, nid, soups[1])
      [] page_name = "broadband" -> broadband_data(st, nid, TRUE, soups)

\* The pages a scrape function fetches, in order.
UrlsOf(page_name) ==
    CASE page_name = "top_beaches" -> <<TopBeachesUrl>>
      [] page_name = "historical_places" -> <<HistoricalUrl>>
      [] page_name = "livingCost" -> <<LivingCostUrl>>
      [] page_name = "visa" -> <<VisaUrl>>
      [] page_name = "transport" -> <<TransportUrl>>
      [] page_name = "top_places" -> <<TopPlacesUrl>>
      [] page_name = "broadband" -> <<DialogUrl, MobitelUrl>>
      [] OTHER -> <<>>

\* An HTTPException: the status and the detail.
HTTPException(status, message) ==
    [status_code |-> status, success |-> FALSE, message |-> message]

\* The response to the outcome r of the scrape function: an exception is
\* caught and answered with status 500, anything returned is a success.
RefreshResponse(r) ==
    IF IsRaised(r.result)
    THEN Ret(r.store, r.nextId, HTTPException(500, "Failed to refresh"), r.fetched)
    ELSE Ret(r.store, r.nextId,
             [status_code |-> 200, success |-> TRUE,
              message |-> "Successfully refreshed", data |-> r.result],
             r.fetched)

\* A variant of refresh_scraped_data without the membership test: the lookup
\* of an unknown name fails and is reported as a failed refresh.
refresh_scraped_data_NoCheck(st, nid, page_name, soups) ==
    IF ~IsAvailable(page_name)
    THEN Ret(st, nid, HTTPException(500, "Failed to refresh"), <<>>)
    ELSE RefreshResponse(ScrapeFunction(st, nid, page_name, soups))

refresh_scraped_data(st, nid, page_name, soups) ==
    IF ~IsAvailable(page_name)
    THEN Ret(st, nid,
             WithKey(HTTPException(400, "Unknown page"),
                     "available_pages", AvailablePages), <<>>)
    ELSE RefreshResponse(ScrapeFunction(st, nid, page_name, soups))

\* main.py get_scraped_page: the stored record whose page is page_name,
\* serialized with its identifier as a string, or the 404 that lists the
\* page names.
get_scraped_page(st, page_name) ==
    LET page_data == find_one(st, [page |-> page_name])
    IN  IF ~Truthy(page_data)
        THEN WithKey(HTTPException(404, "Page not found"),
                     "available_pages", AvailablePages)
        ELSE [status_code |-> 200, success |-> TRUE,
              message |-> "Successfully retrieved", data |-> WithId(page_data)]

(***************************************************************************)
(* State                                                                   *)
(***************************************************************************)
VARIABLES
    store,    \* the "scrape" collection
    nextId,   \* the identifier the store assigns next
    last,     \* the latest call: the function, its arguments, what it
              \* returned and what its fetches returned
    family,   \* the page the requests of this run are for
    jobs,     \* per worker process, the call it is running and where it is
    started   \* the number of calls the worker processes have started

vars == <<store, nextId, last, family, jobs, started>>

NoCall ==
    [op |-> "none", title |-> "", force_scrape |-> FALSE, page_name |-> "",
     result |-> None, fetched |-> <<>>]

Families == {AvailablePages[i] : i \in 1..Len(AvailablePages)}

\* The server's worker processes; they share the collection and nothing else.
Workers == {"w1", "w2"}

\* A worker that runs no call.
Idle ==
    [pc |-> "idle", op |-> "none", force_scrape |-> FALSE, i |-> 0, soup |-> None,
     results |-> <<>>, result |-> None, fetched |-> <<>>]

\* The scrapers share no page key and no filter: a run follows the requests
\* for one page, chosen at the start.
Init ==
    /\ store = <<>>
    /\ nextId = 1
    /\ last = NoCall
    /\ family \in Families
    /\ jobs = [w \in Workers |-> Idle]
    /\ started = 0

\* A call of op that ran to its end with outcome r.
Call(op, title, force_scrape, page_name, r) ==
    /\ r.nextId <= MaxId + 1
    /\ store' = r.store
    /\ nextId' = r.nextId
    /\ last' = [op |-> op, title |-> title, force_scrape |-> force_scrape,
                page_name |-> page_name, result |-> r.result, fetched |-> r.fetched]
    /\ UNCHANGED <<family, jobs, started>>

GetVisa ==
    /\ family = "visa"
    /\ \E title \in VisaTitles, soup \in FetchResults(VisaUrl) :
        \E r \in {get_visa_data(store, nextId, title, soup)} :
            Call("get_visa_data", title, FALSE, "", r)

Transport ==
    /\ family = "transport"
    /\ \E soup \in FetchResults(TransportUrl) :
        \E r \in {transport_data(store, nextId, soup)} :
            Call("transport_data", "", FALSE, "", r)

TopPlaces ==
    /\ family = "top_places"
    /\ \E soup \in FetchResults(TopPlacesUrl) :
        \E r \in {top_places_data(store, nextId, soup)} :
            Call("top_places_data", "", FALSE, "", r)

HistoricalPlaces ==
    /\ family = "historical_places"
    /\ \E soup \in FetchResults(HistoricalUrl) :
        \E r \in {historical_places_data(store, nextId, soup)} :
            Call("historical_places_data", "", FALSE, "", r)

TopBeaches ==
    /\ family = "top_beaches"
    /\ \E soup \in FetchResults(TopBeachesUrl) :
        \E r \in {top_beaches_data(store, nextId, soup)} :
            Call("top_beaches_data", "", FALSE, "", r)

CostOfLiving ==
    /\ family = "livingCost"
    /\ \E force_scrape \in BOOLEAN, soup \in FetchResults(LivingCostUrl) :
        \E r \in {cost_of_living(store, nextId, force_scrape, soup)} :
            Call("cost_of_living", "", force_scrape, "", r)

Broadband ==
    /\ family = "broadband"
    /\ \E force_scrape \in BOOLEAN,
          s1 \in FetchResults(DialogUrl), s2 \in FetchResults(MobitelUrl) :
        \E r \in {broadband_data(store, nextId, force_scrape, <<s1, s2>>)} :
            Call("broadband_data", "", force_scrape, "", r)

\* Sequences of one fetch result per url of urls.
SoupsFor(urls) ==
    IF Len(urls) = 0 THEN {<<>>}
    ELSE IF Len(urls) = 1 THEN {<<s>> : s \in FetchResults(urls[1])}
    ELSE {<<s1, s2>> : s1 \in FetchResults(urls[1]), s2 \in FetchResults(urls[2])}

\* A page name that is no key of scrape_functions.
UnknownPage == "packages"

Refresh ==
    \E page_name \in {family, UnknownPage} : \E soups \in SoupsFor(UrlsOf(page_name)) :
        \E r \in {refresh_scraped_data(store, nextId, page_name, soups)} :
            Call("refresh_scraped_data", "", FALSE, page_name, r)

\* GET /api/mobile/scraped/{page_name}: a read of the collection.
GetScrapedPage ==
    \E page_name \in {family, UnknownPage} :
        Call("get_scraped_page", "", FALSE, page_name,
             Ret(store, nextId, get_scraped_page(store, page_name), <<>>))

Next ==
    \/ GetVisa
    \/ Transport
    \/ TopPlaces
    \/ HistoricalPlaces
    \/ TopBeaches
    \/ CostOfLiving
    \/ Broadband
    \/ Refresh
    \/ GetScrapedPage

Spec == Init /\ [][Next]_vars

(***************************************************************************)
(* Calls that overlap (SpecConc)                                           *)
(*                                                                         *)
(* Two worker processes run broadband_data() (its default, the forced      *)
(* refresh every caller in main.py asks for), cost_of_living or one of the *)
(* scrapers that check the cache and insert, one store operation or one    *)
(* fetch at a step.                                                        *)
(***************************************************************************)
ConcFamilies == Families

InitConc == Init /\ family \in ConcFamilies

\* Worker w takes a step that changes its job to j.
Step(w, j) == jobs' = [jobs EXCEPT ![w] = j]

\* The job j with the result of its i-th page added, at the next page or at
\* the return.
Advance(j, results, fetched) ==
    IF j.i < Len(BroadbandPages)
    THEN [j EXCEPT !.pc = "delete", !.i = j.i + 1, !.soup = None,
                   !.results = results, !.fetched = fetched]
    ELSE [j EXCEPT !.pc = "return", !.soup = None, !.results = results,
                   !.fetched = fetched, !.result = [list |-> results]]

BroadbandStart(w) ==
    /\ family = "broadband"
    /\ jobs[w].pc = "idle"
    /\ started < MaxCalls
    /\ started' = started + 1
    /\ Step(w, [Idle EXCEPT !.pc = "delete", !.op = "broadband_data",
                            !.force_scrape = TRUE, !.i = 1])
    /\ UNCHANGED <<store, nextId, last, family>>

BroadbandDeleteStep(w) ==
    /\ jobs[w].pc = "delete"
    /\ store' = BroadbandDelete(store, jobs[w].force_scrape, BroadbandPages[jobs[w].i])
    /\ Step(w, [jobs[w] EXCEPT !.pc = "fetch"])
    /\ UNCHANGED <<nextId, last, family, started>>

BroadbandFetchStep(w) ==
    /\ jobs[w].pc = "fetch" /\ jobs[w].op = "broadband_data"
    /\ \E soup \in FetchResults(BroadbandPages[jobs[w].i].url) :
        IF ~Truthy(soup)
        THEN Step(w, Advance(jobs[w],
                             Append(jobs[w].results,
                                    Err("Failed to fetch: " \o BroadbandPages[jobs[w].i].url)),
                             Append(jobs[w].fetched, soup)))
        ELSE Step(w, [jobs[w] EXCEPT !.pc = "save", !.soup = soup,
                                     !.fetched = Append(jobs[w].fetched, soup)])
    /\ UNCHANGED <<store, nextId, last, family, started>>

BroadbandSaveStep(w) ==
    /\ jobs[w].pc = "save"
    /\ \E s \in {BroadbandSave(store, nextId, jobs[w].results,
                               Tabulated(BroadbandTable,
                                         <<jobs[w].soup, BroadbandPages[jobs[w].i].page_key>>))} :
        /\ store' = s.store
        /\ nextId' = s.nextId
        /\ Step(w, Advance(jobs[w], s.results, jobs[w].fetched))
    /\ UNCHANGED <<last, family, started>>

\* cost_of_living up to its cache read.
CostOfLivingStart(w) ==
    /\ family = "livingCost"
    /\ jobs[w].pc = "idle"
    /\ started < MaxCalls
    /\ started' = started + 1
    /\ \E force_scrape \in BOOLEAN : \E cached \in {find_one(store, [page |-> "livingCost"])} :
        IF ~force_scrape /\ Truthy(cached)
        THEN Step(w, [Idle EXCEPT !.pc = "return", !.op = "cost_of_living",
                                  !.force_scrape = force_scrape,
                                  !.result = WithId(cached)])
        ELSE Step(w, [Idle EXCEPT !.pc = "fetch", !.op = "cost_of_living",
                                  !.force_scrape = force_scrape])
    /\ UNCHANGED <<store, nextId, last, family>>

CostOfLivingFetchStep(w) ==
    /\ jobs[w].pc = "fetch" /\ jobs[w].op = "cost_of_living"
    /\ \E soup \in FetchResults(LivingCostUrl) :
        IF ~Truthy(soup)
        THEN Step(w, [jobs[w] EXCEPT !.pc = "return", !.fetched = <<soup>>,
                                     !.result = Err("Failed to fetch or parse the page.")])
        ELSE Step(w, [jobs[w] EXCEPT !.pc = "replace", !.soup = soup,
                                     !.fetched = <<soup>>])
    /\ UNCHANGED <<store, nextId, last, family, started>>

\* From the selector to the write and the result.
CostOfLivingReplaceStep(w) ==
    /\ jobs[w].pc = "replace"
    /\ \E r \in {ReplaceAndReturn(store, nextId, "livingCost",
                                  Tabulated(LivingCostTable, jobs[w].soup), jobs[w].soup)} :
        /\ store' = r.store
        /\ nextId' = r.nextId
        /\ Step(w, [jobs[w] EXCEPT !.pc = "return", !.soup = None, !.result = r.result])
    /\ UNCHANGED <<last, family, started>>

\* A scraper that checks the cache and inserts (visa for its default title,
\* transport, top_places, historical_places, top_beaches) up to its cache
\* read: with a record of its key it returns it, without one it goes on to
\* the fetch.  The scraper run with a fetch that fails tells the two apart:
\* only a hit ends without a fetch.
CheckThenInsertStart(w) ==
    /\ family \notin {"broadband", "livingCost"}
    /\ jobs[w].pc = "idle"
    /\ started < MaxCalls
    /\ started' = started + 1
    /\ \E r \in {ScrapeFunction(store, nextId, family, <<None>>)} :
        IF r.fetched = <<>>
        THEN Step(w, [Idle EXCEPT !.pc = "return", !.op = family, !.result = r.result])
        ELSE Step(w, [Idle EXCEPT !.pc = "fetch", !.op = family])
    /\ UNCHANGED <<store, nextId, last, family>>

CheckThenInsertFetchStep(w) ==
    /\ jobs[w].pc = "fetch" /\ jobs[w].op = family
    /\ \E soup \in FetchResults(UrlsOf(family)[1]) :
        Step(w, [jobs[w] EXCEPT !.pc = "insert", !.soup = soup, !.fetched = <<soup>>])
    /\ UNCHANGED <<store, nextId, last, family, started>>

\* From the test of the fetch to the insert and the result.  Nothing past
\* the cache read reads the collection: the scraper runs as on a collection
\* without the record, and its insert lands in the collection as it is now.
CheckThenInsertSaveStep(w) ==
    /\ jobs[w].pc = "insert"
    /\ \E r \in {ScrapeFunction(<<>>, nextId, family, <<jobs[w].soup>>)} :
        /\ store' = store \o r.store
        /\ nextId' = r.nextId
        /\ Step(w, [jobs[w] EXCEPT !.pc = "return", !.soup = None, !.result = r.result])
    /\ UNCHANGED <<last, family, started>>

Return(w) ==
    /\ jobs[w].pc = "return"
    /\ last' = [op |-> jobs[w].op, title |-> "", force_scrape |-> jobs[w].force_scrape,
                page_name |-> "", result |-> jobs[w].result, fetched |-> jobs[w].fetched]
    /\ Step(w, Idle)
    /\ UNCHANGED <<store, nextId, family, started>>

NextConc ==
    \E w \in Workers :
        \/ BroadbandStart(w)
        \/ BroadbandDeleteStep(w)
        \/ BroadbandFetchStep(w)
        \/ BroadbandSaveStep(w)
        \/ CostOfLivingStart(w)
        \/ CostOfLivingFetchStep(w)
        \/ CostOfLivingReplaceStep(w)
        \/ CheckThenInsertStart(w)
        \/ CheckThenInsertFetchStep(w)
        \/ CheckThenInsertSaveStep(w)
        \/ Return(w)

SpecConc == InitConc /\ [][NextConc]_vars

(***************************************************************************)
(* save_scrape on its own (SpecSave)                                       *)
(***************************************************************************)
\* {}
EmptyDict == [k \in {} |-> None]

\* Payloads: None, the empty dict, error objects (alone, with an empty value,
\* and beside the fields of a record) and dicts without the error key.
Payloads ==
    { None, EmptyDict,
      Err("Failed to fetch or parse the page."),
      [error |-> ""],
      WithKey(Tabulated(VisaTable, <<Document(<<VisaSection(<<"General Information">>)>>),
                                     "General Information">>),
              "error", "Could not find content-inner section."),
      Tabulated(VisaTable, <<Document(<<VisaSection(<<"General Information">>)>>),
                             "General Information">>),
      Tabulated(VisaTable, <<Document(<<VisaSection(<<"General Information">>)>>),
                             "Visa Extension">>),
      Tabulated(TransportTable, Document(<<El("div", TransportClass, <<>>, TransportBody)>>)),
      [message |-> "error"] }

InitSave ==
    /\ store = <<>>
    /\ nextId = 1
    /\ last = NoCall
    /\ family = "none"
    /\ jobs = [w \in Workers |-> Idle]
    /\ started = 0

SaveScrape ==
    \E data \in Payloads : \E r \in {save_scrape(store, nextId, data)} :
        /\ r.nextId <= MaxId + 1
        /\ store' = r.store
        /\ nextId' = r.nextId
        /\ last' = [op |-> "save_scrape", title |-> "", force_scrape |-> FALSE,
                    page_name |-> "", result |-> r.result, fetched |-> <<>>,
                    data |-> data]
        /\ UNCHANGED <<family, jobs, started>>

NextSave == SaveScrape

SpecSave == InitSave /\ [][NextSave]_vars

(***************************************************************************)
(* The extractors on their own (SpecExtract)                               *)
(***************************************************************************)
\* What a subtree is made of: headings of several levels with white space
\* around their text, list items, a paragraph, and elements that nest
\* headings and list items deeper.
Items ==
    { H("h1", <<"Top">>),
      H("h2", <<" ", "Beach", " ">>),
      H("h3", <<"Safety">>),
      Li(<<" ", "Swim">>),
      P(<<"Text">>),
      El("div", <<>>, <<>>, <<H("h2", <<"Deep">>),
                              El("ul", <<>>, <<>>, <<Li(<<"Inner", " ">>)>>)>>) }

\* The subtrees: an element with at most MaxKids of the items as children.
Trees ==
    {El("div", <<>>, <<>>, kids) : kids \in UNION {[1..n -> Items] : n \in 0..MaxKids}}

\* The cells a row of the cost table is made of: text, text with an image
\* or an icon, a link of class edit, a link labelled Edit, and a cell that
\* holds a table of its own.
CostCells ==
    { El("td", <<>>, <<>>, <<Txt(<<"Meal">>), El("img", <<>>, <<>>, <<>>)>>),
      El("td", <<>>, <<>>, <<Txt(<<"5.00">>), El("i", <<"icon">>, <<>>, <<>>)>>),
      El("td", <<>>, <<>>, <<El("a", <<"edit">>, <<"/edit">>, <<Txt(<<"Change">>)>>)>>),
      El("td", <<>>, <<>>, <<El("a", <<>>, <<"/edit">>, <<Txt(<<"Edit">>)>>)>>),
      El("td", <<>>, <<>>, <<El("a", <<>>, <<"/more">>, <<Txt(<<"More">>)>>)>>),
      El("td", <<>>, <<>>,
         <<El("table", <<>>, <<>>,
              <<El("tr", <<>>, <<>>, << El("td", <<>>, <<>>, <<Txt(<<"Low">>)>>),
                                        El("td", <<>>, <<>>, <<Txt(<<"High">>)>>) >>)>>)>>) }

\* The cost tables: the header row of the site and a row of at most MaxKids
\* of the cells.
CostTables ==
    {El("table", LivingCostClass, <<>>,
        <<CostTable("5.00").kids[1], El("tr", <<>>, <<>>, cells)>>) :
     cells \in UNION {[1..n -> CostCells] : n \in 0..MaxKids}}

InitExtract ==
    /\ store = <<>>
    /\ nextId = 1
    /\ last \in {[op |-> "none", soup |-> t, result |-> <<>>] : t \in Trees \cup CostTables}
    /\ family = "none"
    /\ jobs = [w \in Workers |-> Idle]
    /\ started = 0

ExtractHeadings ==
    /\ last' = [op |-> "extract_headings", soup |-> last.soup,
                result |-> extract_headings(last.soup)]
    /\ UNCHANGED <<store, nextId, family, jobs, started>>

ExtractListItems ==
    /\ last' = [op |-> "extract_list_items", soup |-> last.soup,
                result |-> extract_list_items(last.soup)]
    /\ UNCHANGED <<store, nextId, family, jobs, started>>

\* Step 3 of cost_of_living on a located table.
CleanTableStep ==
    /\ last.soup.tag = "table"
    /\ last' = [op |-> "CleanTable", soup |-> last.soup,
                result |-> CleanTable(last.soup)]
    /\ UNCHANGED <<store, nextId, family, jobs, started>>

NextExtract == ExtractHeadings \/ ExtractListItems \/ CleanTableStep

SpecExtract == InitExtract /\ [][NextExtract]_vars

(***************************************************************************)
(* main.py: the offer endpoints (SpecOffers).  Here store is the offers    *)
(* collection, filled before the run; the endpoints only read it.          *)
(***************************************************************************)
\* What tells one offer from another for the endpoints: the review status,
\* the switch of its owner and the category.  The offers carry no dates.
OfferKinds ==
    {[adminStatus |-> k[1], isActive |-> k[2], category |-> k[3]] :
        k \in {<<"approved", TRUE, "Food">>, <<"approved", TRUE, "Stay">>,
               <<"approved", FALSE, "Food">>, <<"pending", TRUE, "Stay">>}}

InitOffers ==
    /\ store \in UNION {{[i \in 1..n |->
                            [_id |-> ObjectId(i), adminStatus |-> kinds[i].adminStatus,
                             isActive |-> kinds[i].isActive, category |-> kinds[i].category,
                             title |-> "Deal", discount |-> "10%", createdAt |-> i]] :
                         kinds \in [1..n -> OfferKinds]} : n \in 0..MaxOffers}
    /\ nextId = Len(store) + 1
    /\ last = NoCall
    /\ family = "none"
    /\ jobs = [w \in Workers |-> Idle]
    /\ started = 0

\* The query of the offer list: approved and active, the category matching
\* the category parameter and one of title, discount and category matching
\* the search parameter, without regard to case; an empty parameter adds no
\* condition.
OfferQuery(offer, category, search) ==
    LET lower(t) == CASE t = "Food" -> "food" [] t = "FOOD" -> "food"
                      [] t = "Stay" -> "stay" [] t = "Deal" -> "deal" [] OTHER -> t
    IN  /\ offer.adminStatus = "approved"
        /\ offer.isActive = TRUE
        /\ category # "" => lower(offer.category) = lower(category)
        /\ search # "" => \E f \in {"title", "discount", "category"} :
                              lower(offer[f]) = lower(search)

\* is_offer_active for an offer without dates.
is_offer_active(offer) == offer.adminStatus = "approved" /\ offer.isActive

\* A variant of Pagination whose page count is rounded down.
Pagination_RoundedDown(page, limit, total_offers) ==
    [currentPage |-> page, totalPages |-> total_offers \div limit,
     totalOffers |-> total_offers, hasNext |-> (page * limit) < total_offers,
     hasPrev |-> page > 1, limit |-> limit]

\* has_next, has_prev and total_pages, and the pagination object.
Pagination(page, limit, total_offers) ==
    [currentPage |-> page, totalPages |-> (total_offers + limit - 1) \div limit,
     totalOffers |-> total_offers, hasNext |-> (page * limit) < total_offers,
     hasPrev |-> page > 1, limit |-> limit]

\* GET /api/mobile/offers: the matching offers, latest first, from skip on
\* and limit at most, each serialized and marked.
get_approved_offers(st, page, limit, category, search) ==
    LET matching == SelectSeq(st, LAMBDA o : OfferQuery(o, category, search))
        sorted == [i \in 1..Len(matching) |-> matching[Len(matching) + 1 - i]]
        skip == (page - 1) * limit
        upto == IF skip + limit < Len(sorted) THEN skip + limit ELSE Len(sorted)
        offers == SubSeq(sorted, skip + 1, upto)
    IN  [status_code |-> 200, success |-> TRUE,
         offers |-> [i \in 1..Len(offers) |->
                        WithKey(WithId(offers[i]), "isCurrentlyActive",
                                is_offer_active(offers[i]))],
         pagination |-> Pagination(page, limit, Len(matching)),
         filters |-> [category |-> category, search |-> search]]

\* GET /api/mobile/offers/{offer_id}.  An identifier is [hex |-> n], the text
\* form of ObjectId(n); any other text makes ObjectId(offer_id) raise.
get_offer_details(st, offer_id) ==
    LET offer == IF "hex" \in DOMAIN offer_id
                 THEN find_one(st, [_id |-> ObjectId(offer_id.hex)]) ELSE None
    IN  IF "hex" \notin DOMAIN offer_id THEN HTTPException(400, "Invalid offer ID format")
        ELSE IF ~Truthy(offer) THEN HTTPException(404, "Offer not found")
        ELSE IF offer.adminStatus # "approved"
        THEN HTTPException(403, "Offer is not available")
        ELSE [status_code |-> 200, success |-> TRUE,
              offer |-> WithKey(WithId(offer), "isCurrentlyActive", is_offer_active(offer))]

\* GET /api/mobile/test-data, as far as the offers go: the first two of the
\* collection and the counts.
get_test_data(st) ==
    LET offers_sample == SubSeq(st, 1, IF Len(st) < 2 THEN Len(st) ELSE 2)
    IN  [status_code |-> 200, success |-> TRUE,
         data |-> [offers |-> [i \in 1..Len(offers_sample) |-> WithId(offers_sample[i])]],
         counts |-> [total_offers |-> Len(st),
                     approved_offers |-> count_documents(st, [adminStatus |-> "approved"]),
                     active_offers |-> count_documents(st, [adminStatus |-> "approved",
                                                            isActive |-> TRUE])]]

GetApprovedOffers ==
    /\ \E page \in 1..MaxPage, limit \in 1..MaxLimit,
          category \in {"", "food"}, search \in {"", "STAY"} :
        last' = [op |-> "get_approved_offers",
                 result |-> get_approved_offers(store, page, limit, category, search)]
    /\ UNCHANGED <<store, nextId, family, jobs, started>>

GetOfferDetails ==
    /\ \E offer_id \in {str(ObjectId(n)) : n \in 1..MaxOffers + 1} \cup {[text |-> "latest"]} :
        last' = [op |-> "get_offer_details", offer_id |-> offer_id,
                 result |-> get_offer_details(store, offer_id)]
    /\ UNCHANGED <<store, nextId, family, jobs, started>>

GetTestData ==
    /\ last' = [op |-> "get_test_data", result |-> get_test_data(store)]
    /\ UNCHANGED <<store, nextId, family, jobs, started>>

NextOffers == GetApprovedOffers \/ GetOfferDetails \/ GetTestData

SpecOffers == InitOffers /\ [][NextOffers]_vars

(***************************************************************************)
(* Vocabulary of the properties                                            *)
(***************************************************************************)
Scrapers ==
    {"get_visa_data", "transport_data", "top_places_data", "historical_places_data",
     "top_beaches_data", "cost_of_living", "broadband_data"}

Range(seq) == {seq[i] : i \in 1..Len(seq)}

\* The number of stored records of a page key.
Count(st, page) == count_documents(st, [page |-> page])

\* A result that is a scrape record, not an error object nor an exception.
IsRecord(r) == "content" \in DOMAIN r

\* The results of a call as a list: broadband_data returns a list, the
\* other scrapers one result, the refresh endpoint wraps either in data.
ResultList(c) ==
    LET r == IF c.op = "refresh_scraped_data"
             THEN (IF "data" \in DOMAIN c.result THEN c.result.data ELSE None)
             ELSE c.result
    IN  IF "list" \in DOMAIN r THEN r.list ELSE <<r>>

\* The scraper a call ran, whether called directly or by the endpoint.
ScraperOf(c) ==
    IF c.op # "refresh_scraped_data" THEN c.op
    ELSE CASE c.page_name = "top_beaches" -> "top_beaches_data"
           [] c.page_name = "historical_places" -> "historical_places_data"
           [] c.page_name = "livingCost" -> "cost_of_living"
           [] c.page_name = "visa" -> "get_visa_data"
           [] c.page_name = "transport" -> "transport_data"
           [] c.page_name = "top_places" -> "top_places_data"
           [] c.page_name = "broadband" -> "broadband_data"
           [] OTHER -> "none"

\* The filters of the records a call is about, one per page it scrapes.
KeysOf(c) ==
    LET f == ScraperOf(c)
    IN  CASE f = "get_visa_data" ->
               <<[page |-> "visa",
                  section_title |-> IF c.op = "get_visa_data" THEN c.title
                                    ELSE "General Information"]>>
          [] f = "transport_data" -> <<[page |-> "transport"]>>
          [] f = "top_places_data" -> <<[page |-> "top_places"]>>
          [] f = "historical_places_data" -> <<[page |-> "historical_places"]>>
          [] f = "top_beaches_data" -> <<[page |-> "top_beaches"]>>
          [] f = "cost_of_living" -> <<[page |-> "livingCost"]>>
          [] f = "broadband_data" ->
               <<[page |-> "broadband_dialog"], [page |-> "broadband_mobitel"]>>
          [] OTHER -> <<>>

\* Whether a call was a forced refresh.
Forced(c) ==
    \/ c.op \in {"cost_of_living", "broadband_data"} /\ c.force_scrape
    \/ c.op = "refresh_scraped_data" /\ c.page_name \in {"livingCost", "broadband"}

\* This step is a call of a scraper, direct or through the endpoint.
ScraperCall == ScraperOf(last') \in Scrapers

\* Two results with the same tags, lists and content.
SameContent(r1, r2) ==
    /\ IsRecord(r1) /\ IsRecord(r2)
    /\ r1.tags = r2.tags /\ r1.lists = r2.lists /\ r1.content = r2.content

(***************************************************************************)
(* Properties of the calls, one at a time (Spec)                           *)
(***************************************************************************)
\* C1: a scraper run twice in a row with no forced refresh, for a page the
\* first run returned a record of and which is unchanged (whatever the second
\* run fetched of it is what the first run fetched), returns the second time
\* that record's tags, lists and content and does not fetch the page.
C1_RoundTrip ==
    [][ ( /\ last.op \in Scrapers /\ last'.op = last.op /\ last'.title = last.title
          /\ ~last.force_scrape /\ ~last'.force_scrape )
        => \A i \in 1..Len(ResultList(last)) :
             ( /\ IsRecord(ResultList(last)[i])
               /\ (Len(last.fetched) >= i /\ Len(last'.fetched) >= i)
                      => last'.fetched[i] = last.fetched[i] )
             => ( /\ Len(last'.fetched) < i
                  /\ SameContent(ResultList(last)[i], ResultList(last')[i]) ) ]_vars

\* The round trip of C1 for the scrapers that read the cache: all but
\* broadband_data.
C1_RoundTripOfCachingScrapers ==
    [][ ( /\ last.op \in Scrapers \ {"broadband_data"}
          /\ last'.op = last.op /\ last'.title = last.title
          /\ ~last.force_scrape /\ ~last'.force_scrape
          /\ IsRecord(last.result) )
        => ( /\ last'.fetched = <<>>
             /\ SameContent(last.result, last'.result) ) ]_vars

\* The record the cache holds for the i-th page of the call c.
Cached(st, c, i) == find_one(st, KeysOf(c)[i])

\* C2: a refresh through the endpoint of a known page that has a cached
\* record fetches the page and does not answer with the cached record, and
\* the old record is invalidated before the scrape steps: it is gone even
\* when the fetch then fails.
C2_RefreshBypassesCache ==
    [][ ( /\ last'.op = "refresh_scraped_data" /\ IsAvailable(last'.page_name)
          /\ Truthy(Cached(store, last', 1)) )
        => ( /\ last'.fetched # <<>>
             /\ last'.fetched[1] = None => Cached(store, last', 1) \notin Range(store')
             /\ \A i \in 1..Len(ResultList(last')) :
                    ResultList(last')[i] # WithId(Cached(store, last', 1)) ) ]_vars

\* The pages of the call of this step whose fetch failed.
FailedFetches == {i \in 1..Len(last'.fetched) : last'.fetched[i] = None}

\* C3 as claimed: a call whose page fetch fails leaves the number of stored
\* records of that page key as it was.
C3_FetchFailureKeepsCount ==
    [][ ScraperCall =>
          \A i \in FailedFetches :
              count_documents(store', KeysOf(last')[i]) = count_documents(store, KeysOf(last')[i]) ]_vars

\* C3 amended: a call whose page fetch fails inserts no record of that page
\* key: the number of its records is as it was, except after a forced
\* broadband_data, which has deleted one of them (if there was one) before
\* the fetch.
C3_FetchFailureInsertsNothing ==
    [][ ScraperCall =>
          \A i \in FailedFetches :
              LET before == count_documents(store, KeysOf(last')[i])
                  after == count_documents(store', KeysOf(last')[i])
              IN  IF ScraperOf(last') = "broadband_data" /\ Forced(last') /\ before > 0
                  THEN after = before - 1
                  ELSE after = before ]_vars

\* C3's case: a forced broadband_data whose first fetch failed, run on a
\* store that had been written to.
C3_Witness ==
    /\ last.op = "broadband_data" /\ last.force_scrape
    /\ last.fetched[1] = None
    /\ nextId > 1 /\ Count(store, "broadband_dialog") = 0

\* C4: no scraper call ends in a raised fault: a failed fetch, a selector
\* that matches nothing and a missing section all end in a returned value.
C4_NoScraperRaises == last.op \in Scrapers => ~IsRaised(last.result)

SingleSectionKeys ==
    {"transport", "top_places", "historical_places", "top_beaches", "livingCost",
     "broadband_dialog", "broadband_mobitel"}

\* C5: with calls one at a time, from the empty store, every single-section
\* page key has at most one stored record.
C5_AtMostOneRecord == \A k \in SingleSectionKeys : Count(store, k) <= 1

\* The workers that have run the delete of the page key k and neither
\* failed its fetch nor inserted its record yet.
PastDelete(k) ==
    {w \in Workers : /\ jobs[w].op = "broadband_data"
                     /\ jobs[w].pc \in {"fetch", "save"}
                     /\ BroadbandPages[jobs[w].i].page_key = k}

BroadbandKeys == {BroadbandPages[i].page_key : i \in 1..Len(BroadbandPages)}

\* C6: forced refreshes of a broadband page that overlap can leave two
\* records of its key, and no more than there are workers: every refresh
\* deletes a record, if there is one, before it inserts one, so the records
\* of the key and the refreshes between their delete and their insert are
\* together never more than the workers.
C6_DuplicatesUpToWorkers ==
    \A k \in BroadbandKeys :
        Count(store, k) + Cardinality(PastDelete(k)) <= Cardinality(Workers)

\* C6's case: two forced refreshes, and no other call, have left two records
\* of one key.
C6_Witness ==
    /\ started = 2
    /\ Count(store, "broadband_dialog") = 2
    /\ \A w \in Workers : jobs[w].op = "broadband_data" /\ jobs[w].force_scrape

\* C7: once a livingCost record exists, a livingCost record exists in every
\* later state: no step of cost_of_living removes it, the states in the
\* middle of a forced refresh and after a forced refresh whose fetch or
\* selector failed included.
C7_LivingCostStays ==
    [][ Count(store, "livingCost") >= 1 => Count(store', "livingCost") >= 1 ]_vars

\* C7's case: the record is there while one forced refresh has failed and
\* another is between its fetch and its write.
C7_Witness ==
    /\ Count(store, "livingCost") = 1
    /\ \E w, v \in Workers :
        /\ jobs[w].op = "cost_of_living" /\ jobs[w].force_scrape
        /\ jobs[w].pc = "return" /\ HasError(jobs[w].result)
        /\ jobs[v].op = "cost_of_living" /\ jobs[v].force_scrape
        /\ jobs[v].pc = "replace"

\* The fields a stored record and a returned one share.
SameRecord(stored, returned) ==
    /\ IsRecord(stored) /\ IsRecord(returned)
    /\ stored.url = returned.url /\ stored.page = returned.page
    /\ stored.section_title = returned.section_title
    /\ stored.tags = returned.tags /\ stored.lists = returned.lists
    /\ stored.content = returned.content

\* C8: on a cache miss with a successful fetch and a matching selector the
\* scraper stores before it returns: exactly one record of the key exists
\* afterwards, with the url, page, section_title, tags, lists and content of
\* the record returned.
C8_MissPopulatesCache ==
    [][ ScraperCall =>
          \A i \in 1..Len(last'.fetched) :
              ( /\ count_documents(store, KeysOf(last')[i]) = 0
                /\ IsRecord(ResultList(last')[i]) )
              => ( /\ count_documents(store', KeysOf(last')[i]) = 1
                   /\ SameRecord(find_one(store', KeysOf(last')[i]),
                                 ResultList(last')[i]) ) ]_vars

\* C8's case: a scraper returned a freshly scraped record.
C8_Witness ==
    /\ last.op = "historical_places_data" /\ last.fetched # <<>>
    /\ IsRecord(last.result) /\ Count(store, "historical_places") = 1

\* The content of a record whose section was not found.
Placeholder(title) == PlainText(<<"Section '", title, "' not found.">>)

\* C9: a record enters the store only with a call whose fetch of that page
\* succeeded and whose selector matched, and which returns that record; a
\* call that ends in an error object or an exception stores nothing.  Only
\* visa records can hold the section-not-found placeholder.
C9_OnlySuccessStores ==
    /\ [][ \A rec \in Range(store') \ Range(store) :
             \E i \in 1..Len(last'.fetched) :
                 /\ last'.fetched[i] # None
                 /\ Matches(rec, KeysOf(last')[i])
                 /\ SameRecord(rec, ResultList(last')[i]) ]_vars
    /\ [](\A rec \in Range(store) :
             /\ IsRecord(rec)
             /\ rec.content = Placeholder(rec.section_title) => rec.page = "visa")

\* C9's case: the visa scraper stored a record for a section the fetched
\* page does not have.
C9_Witness ==
    \E rec \in Range(store) :
        rec.page = "visa" /\ rec.content = Placeholder(rec.section_title)

\* C10: after a successful forced refresh of a broadband page exactly one
\* record of its key exists, however many there were.
C10_ForcedRefreshLeavesOne ==
    (ScraperOf(last) = "broadband_data" /\ Forced(last)) =>
        \A i \in 1..Len(ResultList(last)) :
            IsRecord(ResultList(last)[i]) =>
                count_documents(store, KeysOf(last)[i]) = 1

\* The identifiers str() can return.
IdStrings == {str(ObjectId(n)) : n \in 1..MaxId + 1}

\* C11: every record a scraper or the refresh endpoint returns, from a cache
\* hit or from a fresh scrape, has the store's identifier as a string in its
\* id field and has no _id field.
C11_ResultsCarryId ==
    ScraperOf(last) \in Scrapers =>
        \A i \in 1..Len(ResultList(last)) :
            IsRecord(ResultList(last)[i]) =>
                /\ "_id" \notin DOMAIN ResultList(last)[i]
                /\ "id" \in DOMAIN ResultList(last)[i]
                /\ ResultList(last)[i].id \in IdStrings

\* The part of C11 that holds: no returned record has an _id field, and a
\* record returned from the cache has the identifier of a stored record as
\* its id.
C11_CacheHitsCarryId ==
    ScraperOf(last) \in Scrapers =>
        \A i \in 1..Len(ResultList(last)) :
            IsRecord(ResultList(last)[i]) =>
                /\ "_id" \notin DOMAIN ResultList(last)[i]
                /\ last.fetched = <<>> =>
                      \E rec \in Range(store) : ResultList(last)[i].id = str(rec._id)

\* The seven page names the refresh endpoint knows.
KnownPages ==
    {"top_beaches", "historical_places", "livingCost", "visa", "transport",
     "top_places", "broadband"}

\* C12: a refresh of a page name that is not known answers with the
\* unknown-page error (status 400) that lists exactly the seven known names,
\* fetches nothing and leaves the store as it was; no refresh of a known
\* page, failed or not, answers with that error.
C12_UnknownPage ==
    /\ [][ (last'.op = "refresh_scraped_data" /\ last'.page_name \notin KnownPages)
           => ( /\ last'.result.status_code = 400
                /\ ~last'.result.success
                /\ Len(last'.result.available_pages) = 7
                /\ Range(last'.result.available_pages) = KnownPages
                /\ ~IsRaised(last'.result)
                /\ last'.fetched = <<>>
                /\ store' = store /\ nextId' = nextId ) ]_vars
    /\ []( (last.op = "refresh_scraped_data" /\ last.page_name \in KnownPages)
           => ( /\ "available_pages" \notin DOMAIN last.result
                /\ last.result.status_code # 400 ) )

\* C12's case: an unknown page was asked for while the store held a record.
C12_Witness ==
    /\ last.op = "refresh_scraped_data" /\ last.page_name \notin KnownPages
    /\ store # <<>>

\* No heading of the page, of any level, contains the title.
NoHeadingContains(soup, title) ==
    \A j \in 1..Len(extract_headings(soup)) : ~Contains(extract_headings(soup)[j], title)

\* This step is a visa request, direct or through the refresh endpoint.
VisaRequest == ScraperOf(last') = "get_visa_data"

\* C13: a visa request for a title T on a cache miss, with a fetched page
\* none of whose headings contains T, returns a record whose content is
\* "Section 'T' not found." and stores that record under (visa, T); and a
\* visa request for a title whose stored record holds the placeholder
\* fetches nothing and returns that record.
C13_PlaceholderPersisted ==
    /\ [][ ( /\ VisaRequest
             /\ count_documents(store, KeysOf(last')[1]) = 0
             /\ last'.fetched # <<>> /\ last'.fetched[1] # None
             /\ NoHeadingContains(last'.fetched[1], KeysOf(last')[1].section_title) )
           => ( /\ IsRecord(last'.result)
                /\ last'.result.content = Placeholder(KeysOf(last')[1].section_title)
                /\ count_documents(store', KeysOf(last')[1]) = 1
                /\ SameRecord(find_one(store', KeysOf(last')[1]), last'.result) ) ]_vars
    /\ [][ ( /\ VisaRequest
             /\ count_documents(store, KeysOf(last')[1]) > 0
             /\ find_one(store, KeysOf(last')[1]).content
                    = Placeholder(KeysOf(last')[1].section_title) )
           => ( /\ last'.fetched = <<>>
                /\ ResultList(last')[1] = WithId(find_one(store, KeysOf(last')[1]))
                /\ store' = store ) ]_vars

\* C13's case: a visa request was answered from the cache with the
\* placeholder stored by an earlier request.
C13_Witness ==
    /\ last.op = "get_visa_data" /\ last.fetched = <<>>
    /\ IsRecord(last.result)
    /\ last.result.content = Placeholder(last.title)

\* A payload save_scrape refuses: falsy, or with the error key.
Refused(data) == data = None \/ DOMAIN data = {} \/ "error" \in DOMAIN data

\* C14: save_scrape given None, an empty payload or a payload with the error
\* key inserts nothing, leaves the store as it was and returns None; given
\* any other payload it appends exactly that payload as one new record and
\* returns an acknowledgement with the new record's identifier as a string.
C14_SaveScrape ==
    [][ last'.op = "save_scrape" =>
          IF Refused(last'.data)
          THEN /\ store' = store /\ nextId' = nextId
               /\ last'.result = None
          ELSE /\ Len(store') = Len(store) + 1
               /\ SubSeq(store', 1, Len(store)) = store
               /\ WithoutKey(store'[Len(store')], "_id") = last'.data
               /\ \A i \in 1..Len(store) : store[i]._id # store'[Len(store')]._id
               /\ DOMAIN last'.result = {"message", "id"}
               /\ last'.result.message = "Data saved successfully"
               /\ last'.result.id = str(store'[Len(store')]._id)
               /\ last'.result.id \in IdStrings ]_vars

\* C14's case: an error payload beside record fields was refused by a store
\* that an earlier save had written to.
C14_Witness ==
    /\ last.op = "save_scrape"
    /\ "error" \in DOMAIN last.data /\ "content" \in DOMAIN last.data
    /\ last.result = None
    /\ Len(store) = 2

\* The call c is what a GET endpoint of main.py runs: the scraper with its
\* default arguments.
OrdinaryRead(c) ==
    \/ c.op = "get_visa_data" /\ c.title = "General Information"
    \/ c.op \in {"transport_data", "top_places_data", "historical_places_data",
                 "top_beaches_data"}
    \/ c.op = "cost_of_living" /\ ~c.force_scrape
    \/ c.op = "broadband_data" /\ c.force_scrape

\* C15: an ordinary read request, a GET endpoint calling its scraper with the
\* default arguments, leaves every stored record in the store, unchanged.
C15_ReadsKeepRecords ==
    [][ OrdinaryRead(last') => Range(store) \subseteq Range(store') ]_vars

\* The part of C15 that holds: the ordinary reads of every page but
\* broadband, and every non-forced call, keep the stored records.
C15_ReadsOfCachingScrapersKeepRecords ==
    [][ (last'.op \in Scrapers /\ ~Forced(last')) => Range(store) \subseteq Range(store') ]_vars

\* C16: with requests one at a time, the store holds at most one record per
\* (visa, section title) pair, and the record a visa request for a title
\* returns has that title as its section_title.
C16_OneVisaRecordPerTitle ==
    /\ \A t \in VisaTitles :
          count_documents(store, [page |-> "visa", section_title |-> t]) <= 1
    /\ (ScraperOf(last) = "get_visa_data" /\ IsRecord(ResultList(last)[1]))
          => ResultList(last)[1].section_title = KeysOf(last)[1].section_title

\* C16's case: with a record stored for each of two titles, a request was
\* answered from the cache with the record of its own title.
C16_Witness ==
    /\ \A t \in VisaTitles :
          count_documents(store, [page |-> "visa", section_title |-> t]) = 1
    /\ last.op = "get_visa_data" /\ last.fetched = <<>>
    /\ IsRecord(last.result) /\ last.result.section_title = last.title

\* A string of markup: not None, and a sequence of tokens (possibly empty).
\* A sequence and the record None are values of different kinds, which
\* cannot be compared as values: their printed forms are.
IsString(c) ==
    IF ToString(c) = ToString(None) THEN FALSE
    ELSE \A i \in DOMAIN c : c[i].k \in {"open", "text", "close"}

\* The markup holds an h4 whose text contains the title.
HoldsTitle(c, title) ==
    \E i \in DOMAIN c :
        /\ c[i].k = "open" /\ c[i].tag = "h4"
        /\ i < Len(c) /\ c[i + 1].k = "text" /\ Contains(c[i + 1].s, title)

\* C17: every stored record has a content field and it is a string, never
\* None; the content of a visa record is the markup of the section with its
\* title or, the section being absent, the placeholder string.
C17_ContentIsString ==
    \A rec \in Range(store) :
        /\ "content" \in DOMAIN rec
        /\ IsString(rec.content)
        /\ rec.page = "visa" =>
              \/ HoldsTitle(rec.content, rec.section_title)
              \/ rec.content = Placeholder(rec.section_title)

\* C17's case: the store holds a visa record with its section and one with
\* the placeholder.
C17_Witness ==
    \E r1, r2 \in Range(store) :
        /\ r1.page = "visa" /\ HoldsTitle(r1.content, r1.section_title)
        /\ r2.page = "visa" /\ r2.content = Placeholder(r2.section_title)

RECURSIVE InOrder(_, _)
\* The elements below n with one of the tags, as a reader of the document
\* meets them: an element, then what is inside it, then what follows it.
InOrder(n, tags) ==
    Flatten([i \in 1..Len(n.kids) |->
                (IF n.kids[i].tag \in tags THEN <<n.kids[i]>> ELSE <<>>)
                \o InOrder(n.kids[i], tags)])

HeadingTags == {"h1", "h2", "h3", "h4", "h5", "h6"}

\* The trimmed texts of a sequence of elements.
Texts(els) == [j \in 1..Len(els) |-> get_text(els[j])]

\* A text with no white space at either end.
Trimmed(text) == text = <<>> \/ (Head(text) # " " /\ text[Len(text)] # " ")

C19_ListItemsAndNoMatches ==
    /\ (last.op = "extract_headings" /\ InOrder(last.soup, HeadingTags) = <<>>)
          => last.result = <<>>
    /\ last.op = "extract_list_items" =>
          /\ last.result = Texts(InOrder(last.soup, {"li"}))
          /\ \A j \in 1..Len(last.result) : Trimmed(last.result[j])
          /\ InOrder(last.soup, {"li"}) = <<>> => last.result = <<>>

\* C19's case: list items at two depths, the deeper one first in the
\* document, both returned.
C19_Witness ==
    /\ last.op = "extract_list_items"
    /\ Len(last.result) = 2
    /\ last.result[1] = <<"Inner">> /\ last.result[2] = <<"Swim">>

\* What the rewriting makes of one piece of markup.
Rewritten(piece) ==
    CASE piece = OldBus -> NewBus
      [] piece = OldSltb -> NewSltb
      [] OTHER -> piece

\* The pieces of a markup.
Pieces(m) == UNION {Range(m[i].s) : i \in 1..Len(m)}

\* How often a markup holds a piece.
Occurrences(m, piece) ==
    Cardinality(UNION {{<<i, j>> : j \in {j \in 1..Len(m[i].s) : m[i].s[j] = piece}} :
                       i \in 1..Len(m)})

\* The markup of the target of a fetched transport page.
TargetMarkup(soup) == decode_contents(find(soup, "div", TransportClass))

\* C20: the content a transport scrape persists is the markup of the fetched
\* target with every https://www.busbooking.lk/ turned into https://busseat.lk/
\* and every https://sltb.express.lk/ into https://sltb.eseat.lk/, everything
\* else as fetched; it holds neither of the old prefixes.
C20_LinksRewritten ==
    [][(/\ Len(store') = Len(store) + 1
        /\ store'[Len(store')].page = "transport"
        /\ last'.fetched # <<>>)
       => LET content == store'[Len(store')].content
              fetched == TargetMarkup(last'.fetched[1])
          IN  /\ Len(content) = Len(fetched)
              /\ \A i \in 1..Len(fetched) :
                    /\ content[i].k = fetched[i].k
                    /\ content[i].tag = fetched[i].tag
                    /\ content[i].cls = fetched[i].cls
                    /\ Len(content[i].s) = Len(fetched[i].s)
                    /\ \A j \in 1..Len(fetched[i].s) :
                          content[i].s[j] = Rewritten(fetched[i].s[j])
              /\ Pieces(content) \cap {OldBus, OldSltb} = {}]_vars

\* C20's case: a transport page with both old prefixes, one of them in a
\* link and in its text, was fetched and its content persisted with the new
\* ones.
C20_Witness ==
    /\ last.fetched # <<>>
    /\ Truthy(last.fetched[1])
    /\ Truthy(find(last.fetched[1], "div", TransportClass))
    /\ Occurrences(TargetMarkup(last.fetched[1]), OldBus) >= 1
    /\ Occurrences(TargetMarkup(last.fetched[1]), OldSltb) >= 2
    /\ \E rec \in Range(store) :
          /\ rec.page = "transport"
          /\ Occurrences(rec.content, NewBus) >= 1
          /\ Occurrences(rec.content, NewSltb) >= 2

\* The cells of a row: its td and th children.
DirectCells(row) == WithTag(row.kids, CellTags)

\* A link labelled edit, by its class or by its text.
EditLabelled(a) ==
    \/ "edit" \in Range(a.cls)
    \/ \E piece \in Range(get_text(a)) : piece \in {"edit", "Edit", "EDIT"}

\* The cleaned table holds no icon, svg or image element and no edit link.
NoIconsNoEditLinks(cleaned) ==
    /\ InOrder(cleaned, {"i", "svg", "img"}) = <<>>
    /\ \A a \in Range(InOrder(cleaned, {"a"})) : ~EditLabelled(a)

\* The k-th row of the table lost its last cell, if it had cells.
LostLastCell(soup, cleaned, k) ==
    DirectCells(soup.kids[k]) # <<>> =>
        /\ Len(DirectCells(cleaned.kids[k])) = Len(DirectCells(soup.kids[k])) - 1
        /\ Texts(DirectCells(soup.kids[k])) = <<<<"Item">>, <<"Price">>, <<"Edit">>>>
              => Texts(DirectCells(cleaned.kids[k])) = <<<<"Item">>, <<"Price">>>>

\* C21: the cleaned cost table, whose inner markup is persisted as content,
\* holds no icon, svg or image element and no edit-labelled link, every row
\* that has cells is without its last cell, and the text Edit does not occur.
C21_CleanedTable ==
    last.op = "CleanTable" =>
        /\ NoIconsNoEditLinks(last.result)
        /\ \A k \in 1..Len(last.soup.kids) : LostLastCell(last.soup, last.result, k)
        /\ "Edit" \notin Pieces(decode_contents(last.result))

\* A row whose last cell holds no cells of its own.
FlatLastCell(row) ==
    DirectCells(row) = <<>>
    \/ InOrder(DirectCells(row)[Len(DirectCells(row))], CellTags) = <<>>

\* C21 for tables whose rows end in a cell without cells of its own: what
\* the claim says holds of them.
C21_CleanedFlatTable ==
    (last.op = "CleanTable" /\ \A k \in 1..Len(last.soup.kids) : FlatLastCell(last.soup.kids[k]))
        => /\ NoIconsNoEditLinks(last.result)
           /\ \A k \in 1..Len(last.soup.kids) : LostLastCell(last.soup, last.result, k)
           /\ "Edit" \notin Pieces(decode_contents(last.result))

\* The elements of the documents the site at url can serve.
Subtrees(url) ==
    UNION {{d} \cup {n \in Range(Descendants(d)) : n.tag # "#text"} : d \in Pages(url)}

\* The subtree a page's cleanup leaves of a target.
Cleaned(n, page) == IF page = "livingCost" THEN CleanTable(n) ELSE n

\* The serialization a page persists of a subtree.
Serialized(n, page) ==
    IF page \in {"broadband_dialog", "broadband_mobitel"} THEN AllowListed(n)
    ELSE IF page = "transport"
    THEN replace(replace(decode_contents(n), OldBus, NewBus), OldSltb, NewSltb)
    ELSE decode_contents(n)

\* The record's content is the serialization of a subtree of its page, and
\* its tags and lists are the headings and list items of that subtree.
FromOneSubtree(rec) ==
    \E n \in Subtrees(rec.url) :
        /\ rec.content = Serialized(Cleaned(n, rec.page), rec.page)
        /\ rec.tags = extract_headings(Cleaned(n, rec.page))
        /\ rec.lists = extract_list_items(Cleaned(n, rec.page))

\* C22: the tags and lists of every record a scraper stored are the headings
\* and list items of the same target subtree whose inner markup, after the
\* page's cleanup, is its content.
C22_TagsOfTheTarget ==
    \A rec \in Range(store) :
        rec.content # Placeholder(rec.section_title) => FromOneSubtree(rec)

\* C22 without the visa page: what the claim says holds of the records of
\* the other scrapers.
C22_TagsOfTheTargetButVisa ==
    \A rec \in Range(store) : rec.page # "visa" => FromOneSubtree(rec)

\* The sub-page of broadband_data a record belongs to.
SubPage(rec) == CHOOSE i \in 1..Len(BroadbandPages) : BroadbandPages[i].page_key = rec.page

\* What C23 has a sub-page persist of its target: the markup of each
\* allow-listed element, in document order, or the inner markup of the target
\* when it holds none.
AllowListedMarkup(section) ==
    LET listed == InOrder(section, {"h1", "h2", "h3", "table", "td", "tr", "p", "img"})
    IN  IF listed = <<>> THEN decode_contents(section)
        ELSE Flatten([i \in 1..Len(listed) |-> Markup(listed[i])])

\* C23: the content of a broadband record is the markup of the allow-listed
\* elements (h1, h2, h3, table, td, tr, p, img) of the target of its sub-page,
\* each in document order, and the whole inner markup of the target when the
\* target holds none of them.
C23_AllowListedContent ==
    \A rec \in Range(store) :
        rec.page \in {"broadband_dialog", "broadband_mobitel"} =>
            \E d \in Pages(rec.url) :
                /\ Truthy(find(d, "div", BroadbandPages[SubPage(rec)].selector))
                /\ rec.content =
                      AllowListedMarkup(find(d, "div", BroadbandPages[SubPage(rec)].selector))

\* C23's case: a stored sub-page whose target holds allow-listed elements,
\* one inside another, and a stored sub-page whose target holds none.
C23_Witness ==
    \E r1, r2 \in Range(store) :
        /\ r1.page = "broadband_dialog"
        /\ \E i, j \in 1..Len(r1.content) :
              /\ i < j
              /\ r1.content[i].k = "open" /\ r1.content[i].tag = "table"
              /\ r1.content[j].k = "open" /\ r1.content[j].tag = "tr"
        /\ r2.page = "broadband_mobitel"
        /\ r2.content = <<[k |-> "text", tag |-> "", cls |-> <<>>, s |-> <<"Coming soon">>]>>

\* The filter of the cache read of the scraper of a page name.
CacheKey(page_name) ==
    IF page_name = "visa" THEN [page |-> "visa", section_title |-> "General Information"]
    ELSE [page |-> page_name]

\* The workers between a cache miss and the end of their call.
PastMiss == {w \in Workers : jobs[w].op = family /\ jobs[w].pc \in {"fetch", "insert"}}

CheckThenInsertPages == {"visa", "transport", "top_places", "historical_places", "top_beaches"}

\* C24: requests for a check-then-insert page that overlap can both miss the
\* cache and both insert, leaving two records of one key, and no more than
\* there are workers: a request inserts only after a miss, and once a record
\* is stored every later cache read hits.
C24_DuplicatesByInterleaving ==
    family \in CheckThenInsertPages =>
        count_documents(store, CacheKey(family)) + Cardinality(PastMiss)
            <= Cardinality(Workers)

\* C24's case: two requests, and no other, started from the empty store and
\* left two records of the key.
C24_Witness ==
    /\ family \in CheckThenInsertPages
    /\ started = 2
    /\ count_documents(store, CacheKey(family)) = 2

\* The i-th fetch of the call found its page and the target of sub-page i.
TargetFound(c, i) ==
    /\ Truthy(c.fetched[i])
    /\ Truthy(find(c.fetched[i], "div", BroadbandPages[i].selector))

\* C25: broadband_data returns a list of exactly two entries, the first for
\* broadband_dialog and the second for broadband_mobitel, each the record of
\* its sub-page or an error object; when the first sub-page fails at its
\* fetch or its selector, the second is still fetched, and if its target is
\* found its record is returned and stored.
C25_TwoEntries ==
    ScraperOf(last) = "broadband_data" /\ last.fetched # <<>> =>
        /\ Len(ResultList(last)) = 2
        /\ Len(last.fetched) = 2
        /\ \A i \in 1..2 :
              IF TargetFound(last, i)
              THEN /\ IsRecord(ResultList(last)[i])
                   /\ ResultList(last)[i].page = BroadbandPages[i].page_key
                   /\ \E rec \in Range(store) : SameRecord(rec, ResultList(last)[i])
              ELSE HasError(ResultList(last)[i])

\* C25's case: the first sub-page failed and the second was fetched,
\* returned and stored.
C25_Witness ==
    /\ last.op = "broadband_data"
    /\ HasError(ResultList(last)[1])
    /\ IsRecord(ResultList(last)[2])
    /\ ResultList(last)[2].page = "broadband_mobitel"
    /\ \E rec \in Range(store) : SameRecord(rec, ResultList(last)[2])

\* The refresh endpoint answered success and its scraper produced records
\* only.
RefreshedWell(c) ==
    /\ c.op = "refresh_scraped_data"
    /\ c.result.success
    /\ \A i \in 1..Len(ResultList(c)) : IsRecord(ResultList(c)[i])

\* C26: for every available page name, a lookup by that name right after a
\* successful refresh of it finds a stored record and does not answer
\* not-found.
C26_RefreshedPageIsFound ==
    [][(/\ RefreshedWell(last)
        /\ last'.op = "get_scraped_page"
        /\ last'.page_name = last.page_name)
       => last'.result.success /\ last'.result.status_code # 404]_vars

\* C26 for the page names other than broadband: what the claim says holds
\* of them.
C26_RefreshedPageIsFoundButBroadband ==
    [][(/\ RefreshedWell(last)
        /\ last.page_name # "broadband"
        /\ last'.op = "get_scraped_page"
        /\ last'.page_name = last.page_name)
       => /\ last'.result.success
          /\ last'.result.data.page = last.page_name]_vars

\* C27: the refresh endpoint answers success only when the scraper it ran
\* produced a record: with an error object for a result, or an error entry
\* among broadband's results, the response is not marked successful.
C27_SuccessMeansRecord ==
    (last.op = "refresh_scraped_data" /\ last.result.success) =>
        \A i \in 1..Len(ResultList(last)) : IsRecord(ResultList(last)[i])

\* The offers a response holds.
ReturnedOffers(c) ==
    CASE c.op = "get_approved_offers" -> Range(c.result.offers)
      [] c.op = "get_offer_details" ->
            IF c.result.success THEN {c.result.offer} ELSE {}
      [] c.op = "get_test_data" -> Range(c.result.data.offers)
      [] OTHER -> {}

\* The offer list holds approved and active offers only, and the details
\* endpoint answers 400 for a text that is no identifier, 404 for an
\* identifier of no offer, 403 for an offer that is not approved, in this
\* order, and the offer otherwise.
ListAndDetailsGuarded ==
    /\ last.op = "get_approved_offers" =>
          \A o \in ReturnedOffers(last) : o.adminStatus = "approved" /\ o.isActive
    /\ last.op = "get_offer_details" =>
          last.result.status_code =
              IF "hex" \notin DOMAIN last.offer_id THEN 400
              ELSE IF \A o \in Range(store) : o._id # ObjectId(last.offer_id.hex) THEN 404
              ELSE IF \E o \in Range(store) : /\ o._id = ObjectId(last.offer_id.hex)
                                              /\ o.adminStatus # "approved" THEN 403
              ELSE 200

\* C28: no endpoint returns an offer that is not approved; the offer list
\* holds approved and active offers only, and the details endpoint answers
\* 400, 404 and 403 in this order.
C28_OnlyApprovedOffers ==
    /\ \A o \in ReturnedOffers(last) : o.adminStatus = "approved"
    /\ ListAndDetailsGuarded

\* C28 for the offer list and the offer details alone: what the claim says
\* holds of these two endpoints.
C28_ListAndDetailsOnlyApproved ==
    /\ last.op \in {"get_approved_offers", "get_offer_details"} =>
          \A o \in ReturnedOffers(last) : o.adminStatus = "approved"
    /\ ListAndDetailsGuarded

\* The least number of pages of limit offers that hold total offers.
Ceiling(total, limit) ==
    CHOOSE n \in 0..total : n * limit >= total /\ \A m \in 0..total : m * limit >= total => n <= m

\* C29: in the response of the offer list, for a page of 1 or more, a limit
\* of 1 to 100 and a total of 0 or more, totalPages is the ceiling of total /
\* limit, hasPrev holds exactly when currentPage > 1 and hasNext exactly when
\* currentPage < totalPages; the total is the number of offers that match.
C29_Pagination ==
    last.op = "get_approved_offers" =>
        LET p == last.result.pagination
        IN  /\ p.currentPage >= 1 /\ p.limit \in 1..100 /\ p.totalOffers >= 0
            /\ p.totalOffers =
                  Cardinality({i \in 1..Len(store) :
                      OfferQuery(store[i], last.result.filters.category,
                                 last.result.filters.search)})
            /\ p.totalPages = Ceiling(p.totalOffers, p.limit)
            /\ p.hasPrev <=> p.currentPage > 1
            /\ p.hasNext <=> p.currentPage < p.totalPages

\* C29's case: a total that is no multiple of the limit, on a page that has
\* a next one and on the last page.
C29_Witness ==
    /\ last.op = "get_approved_offers"
    /\ last.result.pagination.totalOffers = 3
    /\ last.result.pagination.limit = 2
    /\ last.result.pagination.totalPages = 2
    /\ last.result.pagination.currentPage = 2
    /\ last.result.pagination.hasPrev
    /\ ~last.result.pagination.hasNext
    /\ Len(last.result.offers) = 1

====
